---- MODULE Spec2Model ----
(***************************************************************************)
(* Model of the autoclass package: the composing decorator of              *)
(* autoclass/autoclass.py and the classes of autoclass/tests/test_readme.  *)
(* A class is declared, decorated once, and then instantiated and used.    *)
(* Attribute names are sequences of tokens, so that the private name of a  *)
(* property (_a) and a name-mangled class-private name (_C__class_private) *)
(* are computed, not assumed.                                              *)
(***************************************************************************)
EXTENDS Integers, Sequences, FiniteSets, TLC

VARIABLES src, stage, cfg, cls, calls, insts, created, last

vars == <<src, stage, cfg, cls, calls, insts, created, last>>

\* ------------------------------------------------------------------ bounds

\* Attribute values are the integers 0..MaxVal.
MaxVal == 1

Values == 0..MaxVal

\* ------------------------------------------------------------------- names

\* The absent filter (include=None, exclude=None), and a filter naming attributes.
None == [given |-> FALSE, names |-> {}]

Names(S) == [given |-> TRUE, names |-> S]

A == <<"a">>

B == <<"b">>

\* The constructor's signature, def __init__(self, a, b=1), in order.
Params == <<A, B>>

ParamSet == {Params[i] : i \in 1..Len(Params)}

\* The parameters that have a default value, and the value.
Defaults == (B :> 1)

\* The two variables the tests bind instances to.
Instances == {"o", "p"}

ClassName == "C"

\* The attribute a generated or overridden accessor stores to: self._a.
private_name(n) == <<"_">> \o n

\* A public field does not start with an underscore.
is_public(n) == Head(n) \notin {"_", "__"}

\* Python's name mangling of self.__x inside class C: _C__x.
mangle(n) == IF Head(n) = "__" THEN <<"_", ClassName>> \o n ELSE n

NonConstructorArg == <<"non_constructor_arg">>

Private == <<"_", "private">>

ClassPrivate == <<"__", "class_private">>

\* --------------------------------------------------------- include/exclude

\* include/exclude: None, or the single attribute name 'b'.
Filters == {None, Names({B})}

\* Whether an attribute name is selected by include/exclude (None means all).
sieve(n, include, exclude) ==
    IF include # None THEN n \in include.names
    ELSE IF exclude # None THEN n \notin exclude.names
    ELSE TRUE

\* ------------------------------------------------------- the class written

\* The class as written by the user: whether __init__ carries
\* @validate(a=gt(0)), whether a @setter_override for a is defined, and the
\* constructor body (pass; self.a = a, self.b = b; or the three extra fields).
Bodies == {"pass", "assign", "extras"}

Sources == [validate : BOOLEAN, override : BOOLEAN, body : Bodies]

\* gt(0), the validator of parameter a.
gt0(v) == v > 0

validated(s) == IF s.validate THEN {A} ELSE {}

accepts(s, n, v) == n \in validated(s) => gt0(v)

\* The undecorated class object.
RawClass ==
    [init |-> [autoargs |-> FALSE, include |-> None, exclude |-> None],
     props |-> {},
     mapping |-> [on |-> FALSE, include |-> None, exclude |-> None,
                  only_constructor_args |-> TRUE, only_public_fields |-> TRUE]]

\* ---------------------------------------------------------- the decorators

get_constructor(c) == c.init

\* @autoargs: the constructor wrapped so that it mirrors the selected
\* parameters onto the instance before running the original constructor.
autoargs_decorate(init, include, exclude) ==
    [autoargs |-> TRUE, include |-> include, exclude |-> exclude]

\* @autoprops: a property for every selected constructor parameter.
autoprops_decorate(c, include, exclude) ==
    [c EXCEPT !.props = {p \in ParamSet : sieve(p, include, exclude)}]

\* @autodict: the mapping view and from_dict.
autodict_decorate(c, include, exclude, only_constructor_args, only_public_fields) ==
    [c EXCEPT !.mapping = [on |-> TRUE, include |-> include, exclude |-> exclude,
                           only_constructor_args |-> only_constructor_args,
                           only_public_fields |-> only_public_fields]]

\* One invocation of a sub-decorator, as logged: the function, the filter it
\* received, and whether the class it received had its constructor wrapped.
Call(fn, include, exclude, c) ==
    [fn |-> fn, include |-> include, exclude |-> exclude, wrapped |-> c.init.autoargs]

\* The arguments autoclass_decorate hands to each sub-decorator.
autoargs_args(include, exclude) == [include |-> include, exclude |-> exclude]

autoprops_args_dropped(include, exclude) == [include |-> None, exclude |-> None]

autoprops_args(include, exclude) == [include |-> include, exclude |-> exclude]

autodict_args(include, exclude) == [include |-> include, exclude |-> exclude]

step_autoargs_discarded(s, include, exclude) ==
    LET a == autoargs_args(include, exclude) IN
    [cls |-> s.cls,
     calls |-> Append(s.calls, Call("autoargs", a.include, a.exclude, s.cls))]

\* if autoargs: cls.__init__ = autoargs_decorate(get_constructor(cls), ...)
step_autoargs(s, include, exclude) ==
    LET a == autoargs_args(include, exclude) IN
    [cls |-> [s.cls EXCEPT !.init =
                 autoargs_decorate(get_constructor(s.cls), a.include, a.exclude)],
     calls |-> Append(s.calls, Call("autoargs", a.include, a.exclude, s.cls))]

step_autoprops_skipped(s, include, exclude) == s

\* if autoprops: autoprops_decorate(cls, include=include, exclude=exclude)
step_autoprops(s, include, exclude) ==
    LET a == autoprops_args(include, exclude) IN
    [cls |-> autoprops_decorate(s.cls, a.include, a.exclude),
     calls |-> Append(s.calls, Call("autoprops", a.include, a.exclude, s.cls))]

step_autodict_all_fields(s, include, exclude) ==
    LET a == autodict_args(include, exclude) IN
    [cls |-> autodict_decorate(s.cls, a.include, a.exclude, FALSE, FALSE),
     calls |-> Append(s.calls, Call("autodict", a.include, a.exclude, s.cls))]

step_autodict_not_applied(s, include, exclude) ==
    LET a == autodict_args(include, exclude) IN
    [cls |-> s.cls,
     calls |-> Append(s.calls, Call("autodict", a.include, a.exclude, s.cls))]

\* if autodict: autodict_decorate(cls, include=include, exclude=exclude)
step_autodict(s, include, exclude) ==
    LET a == autodict_args(include, exclude) IN
    [cls |-> autodict_decorate(s.cls, a.include, a.exclude, TRUE, TRUE),
     calls |-> Append(s.calls, Call("autodict", a.include, a.exclude, s.cls))]

autoclass_decorate_wrong_flag(c, include, exclude, autoargs, autoprops, autodict) ==
    LET s0 == [cls |-> c, calls |-> <<>>]
        s1 == IF autoargs THEN step_autoargs(s0, include, exclude) ELSE s0
        s2 == IF autoprops THEN step_autoprops(s1, include, exclude) ELSE s1
        s3 == IF autoprops THEN step_autodict(s2, include, exclude) ELSE s2
    IN  s3

autoclass_decorate_props_first(c, include, exclude, autoargs, autoprops, autodict) ==
    LET s0 == [cls |-> c, calls |-> <<>>]
        s1 == IF autoprops THEN step_autoprops(s0, include, exclude) ELSE s0
        s2 == IF autoargs THEN step_autoargs(s1, include, exclude) ELSE s1
        s3 == IF autodict THEN step_autodict(s2, include, exclude) ELSE s2
    IN  s3

\* autoclass_decorate: the three steps in order, each under its flag.
autoclass_decorate(c, include, exclude, autoargs, autoprops, autodict) ==
    LET s0 == [cls |-> c, calls |-> <<>>]
        s1 == IF autoargs THEN step_autoargs(s0, include, exclude) ELSE s0
        s2 == IF autoprops THEN step_autoprops(s1, include, exclude) ELSE s1
        s3 == IF autodict THEN step_autodict(s2, include, exclude) ELSE s2
    IN  s3

autoclass_flags_swapped(c, include, exclude, autoargs, autoprops, autodict) ==
    autoclass_decorate(c, include, exclude, autoargs, autodict, autoprops)

\* autoclass(include, exclude, autoargs, autoprops, autodict)(cls)
autoclass(c, include, exclude, autoargs, autoprops, autodict) ==
    autoclass_decorate(c, include, exclude, autoargs, autoprops, autodict)

readme_autodict_bare(c, with_autoargs, only_constructor_args, only_public_fields) ==
    LET c1 == IF with_autoargs
              THEN [c EXCEPT !.init = autoargs_decorate(get_constructor(c), None, None)]
              ELSE c
    IN  autodict_decorate(c1, None, None, TRUE, TRUE)

\* The decorators as the readme's autodict tests write them: an optional
\* @autoargs on __init__, then @autodict with its two options.
readme_autodict(c, with_autoargs, only_constructor_args, only_public_fields) ==
    LET c1 == IF with_autoargs
              THEN [c EXCEPT !.init = autoargs_decorate(get_constructor(c), None, None)]
              ELSE c
    IN  autodict_decorate(c1, None, None, only_constructor_args, only_public_fields)

\* ------------------------------------------------------------ the instance

\* An instance is its __dict__: a function from attribute names to values.
NoAttrs == <<>>

put(self, n, v) == [x \in (DOMAIN self) \cup {n} |-> IF x = n THEN v ELSE self[x]]

Result(outcome, self, overridden) ==
    [outcome |-> outcome, self |-> self, overridden |-> overridden]

\* The setter of the property autoprops generates for n: the validators the
\* constructor declares for n, then the user's @setter_override if there is
\* one, else the generated body; both store to self._n.
property_set(s, self, n, v) ==
    IF ~accepts(s, n, v)
    THEN Result("ValidationError", self, FALSE)
    ELSE Result("ok", put(self, private_name(n), v), s.override /\ n = A)

\* self.n = v
object_setattr(c, s, self, n, v) ==
    IF n \in c.props THEN property_set(s, self, n, v)
    ELSE Result("ok", put(self, n, v), FALSE)

\* hasattr(self, n) and self.n: through the generated getter when n is a property.
has_attr(c, self, n) ==
    IF n \in c.props THEN private_name(n) \in DOMAIN self ELSE n \in DOMAIN self

get_attr(c, self, n) ==
    IF n \in c.props THEN self[private_name(n)] ELSE self[n]

\* ---------------------------------------------------------- the constructor

index(p) == CHOOSE i \in 1..Len(Params) : Params[i] = p

\* Binding of a call's positional and keyword arguments to the signature
\* (a TypeError when it fails), defaults applied.
bind_ok(pos, kw) ==
    /\ Len(pos) <= Len(Params)
    /\ DOMAIN kw \subseteq ParamSet
    /\ \A i \in 1..Len(Params) :
          IF i <= Len(pos) THEN Params[i] \notin DOMAIN kw
          ELSE Params[i] \in DOMAIN kw \/ Params[i] \in DOMAIN Defaults

bind(pos, kw) ==
    [p \in ParamSet |->
        IF index(p) <= Len(pos) THEN pos[index(p)]
        ELSE IF p \in DOMAIN kw THEN kw[p]
        ELSE Defaults[p]]

\* setattr(self, p, args[p]) for the parameters from the i-th on that
\* include/exclude select, stopping at the first assignment that raises.
RECURSIVE assign_from(_, _, _, _, _, _, _)
assign_from(c, s, r, args, i, include, exclude) ==
    IF i > Len(Params) \/ r.outcome # "ok" THEN r
    ELSE IF sieve(Params[i], include, exclude)
         THEN assign_from(c, s, object_setattr(c, s, r.self, Params[i], args[Params[i]]),
                          args, i + 1, include, exclude)
         ELSE assign_from(c, s, r, args, i + 1, include, exclude)

\* The constructor as written: @validate's check of the arguments, then the body.
user_init(c, s, self, args) ==
    IF \E p \in validated(s) : ~gt0(args[p])
    THEN Result("ValidationError", self, FALSE)
    ELSE CASE s.body = "pass" -> Result("ok", self, FALSE)
           [] s.body = "assign" ->
                assign_from(c, s, Result("ok", self, FALSE), args, 1, None, None)
           [] s.body = "extras" ->
                Result("ok",
                       put(put(put(self, NonConstructorArg, 0), Private, 1),
                           mangle(ClassPrivate), 0),
                       FALSE)

\* cls(*pos, **kw): the autoargs wrapper, when there is one, mirrors the
\* selected arguments onto self and then runs the constructor as written.
construct(c, s, pos, kw) ==
    IF ~bind_ok(pos, kw) THEN Result("TypeError", NoAttrs, FALSE)
    ELSE LET args == bind(pos, kw)
             r0 == Result("ok", NoAttrs, FALSE)
             r1 == IF c.init.autoargs
                   THEN assign_from(c, s, r0, args, 1, c.init.include, c.init.exclude)
                   ELSE r0
         IN  IF r1.outcome # "ok" THEN r1 ELSE user_init(c, s, r1.self, args)

\* -------------------------------------------------------- the mapping view

\* The keys the view iterates over.
view_keys(c, self) ==
    IF c.mapping.only_constructor_args
    THEN {p \in ParamSet : sieve(p, c.mapping.include, c.mapping.exclude)}
    ELSE {n \in DOMAIN self :
             /\ sieve(n, c.mapping.include, c.mapping.exclude)
             /\ c.mapping.only_public_fields => is_public(n)}

\* self[k]: a KeyError when k is no key or the attribute is missing.
has_item(c, self, k) == k \in view_keys(c, self) /\ has_attr(c, self, k)

get_item(c, self, k) == get_attr(c, self, k)

\* dict(o): keys() and then o[k] for each.
dict_ok(c, self) == \A k \in view_keys(c, self) : has_item(c, self, k)

dict_of(c, self) == [k \in view_keys(c, self) |-> get_item(c, self, k)]

\* o == d for a mapping d: same keys, same items.
eq_mapping(c, self, d) ==
    /\ view_keys(c, self) = DOMAIN d
    /\ \A k \in DOMAIN d : has_item(c, self, k) /\ get_item(c, self, k) = d[k]

\* vars(o)
vars_of(self) == self

\* cls.from_dict(d): cls(**d).
from_dict(c, s, d) == construct(c, s, <<>>, d)

\* o[k] = v: the view defines no item assignment.
set_item(c, self, k, v) == Result("TypeError", self, FALSE)

\* ----------------------------------------------------------------- actions

\* How a call passed each parameter: positionally, by keyword, or not at all.
how(pos, kw) ==
    [p \in ParamSet |->
        IF index(p) <= Len(pos) THEN "positional"
        ELSE IF p \in DOMAIN kw THEN "keyword"
        ELSE "default"]

NoOp ==
    [op |-> "none", name |-> A, value |-> 0, args |-> <<>>, how |-> <<>>,
     given |-> {}, outcome |-> "ok", overridden |-> FALSE]

Init ==
    /\ src \in Sources
    /\ stage = "declared"
    /\ cfg = [via |-> "none", include |-> None, exclude |-> None,
              autoargs |-> FALSE, autoprops |-> FALSE, autodict |-> FALSE,
              all_fields |-> FALSE]
    /\ cls = RawClass
    /\ calls = <<>>
    /\ insts = [i \in Instances |-> NoAttrs]
    /\ created = {}
    /\ last = NoOp

\* @autoclass(include, exclude, autoargs, autoprops, autodict) on the class.
\* exclude is given only with include None; a @setter_override is written
\* only for a property that autoprops generates.
Autoclass(include, exclude, autoargs, autoprops, autodict) ==
    /\ stage = "declared"
    /\ include = None \/ exclude = None
    /\ src.override => autoprops /\ sieve(A, include, exclude)
    /\ LET s == autoclass(RawClass, include, exclude, autoargs, autoprops, autodict) IN
          /\ cls' = s.cls
          /\ calls' = s.calls
    /\ cfg' = [via |-> "autoclass", include |-> include, exclude |-> exclude,
               autoargs |-> autoargs, autoprops |-> autoprops, autodict |-> autodict,
               all_fields |-> FALSE]
    /\ stage' = "decorated"
    /\ UNCHANGED <<src, insts, created, last>>

\* @autodict or @autodict(only_constructor_args=False, only_public_fields=False)
\* on a class whose constructor may carry @autoargs.
ReadmeAutodict(with_autoargs, all_fields) ==
    /\ stage = "declared"
    /\ ~src.override
    /\ cls' = readme_autodict(RawClass, with_autoargs, ~all_fields, ~all_fields)
    /\ cfg' = [via |-> "readme", include |-> None, exclude |-> None,
               autoargs |-> with_autoargs, autoprops |-> FALSE, autodict |-> TRUE,
               all_fields |-> all_fields]
    /\ stage' = "decorated"
    /\ UNCHANGED <<src, calls, insts, created, last>>

\* The instance variable i is bound to r.self when the call returned.
Bind(i, r) ==
    IF r.outcome = "ok"
    THEN /\ insts' = [insts EXCEPT ![i] = r.self]
         /\ created' = created \cup {i}
    ELSE UNCHANGED <<insts, created>>

\* What a call of the constructor leaves in last.
Called(op, pos, kw, r) ==
    [op |-> op, name |-> A, value |-> 0,
     args |-> IF bind_ok(pos, kw) THEN bind(pos, kw) ELSE <<>>,
     how |-> IF r.outcome = "ok" THEN how(pos, kw) ELSE <<>>,
     given |-> IF r.outcome = "ok" THEN DOMAIN kw ELSE {},
     outcome |-> r.outcome, overridden |-> FALSE]

Assigned(op, n, v, r) ==
    [op |-> op, name |-> n, value |-> v, args |-> <<>>, how |-> <<>>,
     given |-> {}, outcome |-> r.outcome, overridden |-> r.overridden]

\* o = C(*pos, **kw)
Construct(pos, kw) ==
    /\ stage = "decorated"
    /\ LET r == construct(cls, src, pos, kw) IN
          /\ Bind("o", r)
          /\ last' = Called("construct", pos, kw, r)
    /\ UNCHANGED <<src, stage, cfg, cls, calls>>

\* p = C.from_dict(d)
FromDict(d) ==
    /\ stage = "decorated"
    /\ cls.mapping.on
    /\ LET r == from_dict(cls, src, d) IN
          /\ Bind("p", r)
          /\ last' = Called("from_dict", <<>>, d, r)
    /\ UNCHANGED <<src, stage, cfg, cls, calls>>

\* o.n = v
SetAttr(n, v) ==
    /\ stage = "decorated"
    /\ "o" \in created
    /\ LET r == object_setattr(cls, src, insts["o"], n, v) IN
          /\ insts' = [insts EXCEPT !["o"] = r.self]
          /\ last' = Assigned("setattr", n, v, r)
    /\ UNCHANGED <<src, stage, cfg, cls, calls, created>>

\* o[k] = v (the refused value is not kept in last)
SetItem(k, v) ==
    /\ stage = "decorated"
    /\ "o" \in created
    /\ cls.mapping.on
    /\ LET r == set_item(cls, insts["o"], k, v) IN
          /\ insts' = [insts EXCEPT !["o"] = r.self]
          /\ last' = Assigned("setitem", k, 0, r)
    /\ UNCHANGED <<src, stage, cfg, cls, calls, created>>

\* The calls made: no more arguments than the signature has parameters.
Positionals == UNION {[1..n -> Values] : n \in 0..Len(Params)}

Keywords == UNION {[S -> Values] : S \in SUBSET ParamSet}

CallShapes ==
    {c \in Positionals \X Keywords : Len(c[1]) + Cardinality(DOMAIN c[2]) <= Len(Params)}

Next ==
    \/ \E include \in Filters, exclude \in Filters, f \in [1..3 -> BOOLEAN] :
          Autoclass(include, exclude, f[1], f[2], f[3])
    \/ \E with_autoargs \in BOOLEAN, all_fields \in BOOLEAN :
          ReadmeAutodict(with_autoargs, all_fields)
    \/ \E c \in CallShapes : Construct(c[1], c[2])
    \/ \E d \in Keywords : FromDict(d)
    \/ \E n \in ParamSet, v \in Values : SetAttr(n, v)
    \/ \E k \in ParamSet, v \in Values : SetItem(k, v)

Spec == Init /\ [][Next]_vars

\* ------------------------------------------------------------------ claims

Decorated == stage = "decorated"

ViaAutoclass == Decorated /\ cfg.via = "autoclass"

Fns == {calls[k].fn : k \in 1..Len(calls)}

\* C1: every sub-decorator that autoclass_decorate invokes receives exactly
\* the include and the exclude that were passed to autoclass.
C1_SharedFilter ==
    ViaAutoclass =>
        \A k \in 1..Len(calls) :
            /\ calls[k].include = cfg.include
            /\ calls[k].exclude = cfg.exclude

\* All three steps ran on a class decorated with a filter.
C1_Witness ==
    /\ ViaAutoclass
    /\ Len(calls) = 3
    /\ cfg.include = Names({B})

\* C2: each of the three steps is applied if and only if its flag is true,
\* and the class carries exactly what the enabled steps produce: an unchanged
\* __init__ without autoargs, no properties without autoprops, no mapping
\* view without autodict, whatever the other two flags are.
C2_StepsIffFlags ==
    ViaAutoclass =>
        /\ ("autoargs" \in Fns) = cfg.autoargs
        /\ ("autoprops" \in Fns) = cfg.autoprops
        /\ ("autodict" \in Fns) = cfg.autodict
        /\ cls.init = IF cfg.autoargs
                      THEN [autoargs |-> TRUE, include |-> cfg.include,
                            exclude |-> cfg.exclude]
                      ELSE RawClass.init
        /\ cls.props = IF cfg.autoprops
                       THEN {p \in ParamSet : sieve(p, cfg.include, cfg.exclude)}
                       ELSE {}
        /\ cls.mapping.on = cfg.autodict
        /\ ~cfg.autodict => cls.mapping = RawClass.mapping

\* Only autoprops is enabled, and only the properties were generated.
C2_Witness ==
    /\ ViaAutoclass
    /\ ~cfg.autoargs /\ cfg.autoprops /\ ~cfg.autodict
    /\ cls.props = ParamSet
    /\ ~cls.init.autoargs /\ ~cls.mapping.on
    /\ "o" \in created

Rank(fn) == CASE fn = "autoargs" -> 1 [] fn = "autoprops" -> 2 [] fn = "autodict" -> 3

C9_Ordered ==
    /\ \A j, k \in 1..Len(calls) : j < k => Rank(calls[j].fn) < Rank(calls[k].fn)
    /\ \A k \in 1..Len(calls) :
          calls[k].fn \in {"autoprops", "autodict"} => calls[k].wrapped = cfg.autoargs
    /\ (created # {} \/ last.op # "none") => Decorated

C9_Once ==
    Decorated => /\ calls' = calls
                 /\ cls' = cls
                 /\ stage' = stage

\* C9: the enabled steps run in the order autoargs, autoprops, autodict, each
\* at most once, before any instance exists; autoprops and autodict receive
\* the class whose __init__ autoargs has already replaced; and no later
\* construction or use of an instance runs a decoration step again.
C9_OrderOnce == [](C9_Ordered) /\ [][C9_Once]_vars

\* All three steps ran, and an instance was then constructed and assigned to.
C9_Witness ==
    /\ ViaAutoclass
    /\ Len(calls) = 3
    /\ "o" \in created
    /\ last.op = "setattr"

\* The instance the last call of the constructor bound.
Built == IF last.op = "from_dict" THEN insts["p"] ELSE insts["o"]

Constructed == last.op \in {"construct", "from_dict"} /\ last.outcome = "ok"

\* The parameters autoargs mirrors, and the name each value is stored under.
Selected == {p \in ParamSet : sieve(p, cfg.include, cfg.exclude)}

stored_name(p) == IF p \in cls.props THEN private_name(p) ELSE p

\* C3 as stated: after construction through an autoargs constructor every
\* parameter's attribute holds the bound value, and with an empty body
\* vars(instance) is the mapping of parameter names to values.
C3_AsStated ==
    (Constructed /\ cfg.autoargs) =>
        /\ \A p \in ParamSet :
              has_attr(cls, Built, p) /\ get_attr(cls, Built, p) = last.args[p]
        /\ src.body = "pass" => vars_of(Built) = last.args

\* C3, amended: after construction through an autoargs constructor, every
\* parameter that include/exclude select (all of them when neither is given)
\* reads back the value bound to it, however it was passed; with an empty
\* body vars(instance) maps exactly the selected parameters to their values,
\* each under its own name, or under _name when autoprops made it a property.
C3_Mirrored ==
    (Constructed /\ cfg.autoargs) =>
        /\ \A p \in Selected :
              has_attr(cls, Built, p) /\ get_attr(cls, Built, p) = last.args[p]
        /\ src.body = "pass" =>
              /\ DOMAIN vars_of(Built) = {stored_name(p) : p \in Selected}
              /\ \A p \in Selected : vars_of(Built)[stored_name(p)] = last.args[p]
        /\ (src.body = "pass" /\ Selected = ParamSet /\ cls.props = {}) =>
              vars_of(Built) = last.args

\* A call with a positional a and a defaulted b on a plain @autoargs
\* constructor with an empty body: vars is {a: 1, b: 1}.
C3_Witness ==
    /\ Constructed /\ cfg.autoargs /\ last.op = "construct"
    /\ src.body = "pass" /\ Selected = ParamSet /\ cls.props = {}
    /\ last.how = (A :> "positional" @@ B :> "default")
    /\ vars_of(insts["o"]) = (A :> 1 @@ B :> 1)

\* An assignment o.n = v to a property that autoprops was asked to generate
\* for a parameter the constructor validates.
ValidatedAssignment ==
    /\ last.op = "setattr"
    /\ cfg.autoprops
    /\ last.name \in Selected
    /\ last.name \in validated(src)

\* C4: on a class decorated with autoprops, an assignment to the generated
\* property of a validated parameter raises when the validator rejects the
\* value, and otherwise succeeds and is what the getter then returns; and a
\* constructor call with a rejected value raises too.
C4_ValidatedSetter ==
    /\ ValidatedAssignment =>
          IF last.value > 0
          THEN /\ last.outcome = "ok"
               /\ has_attr(cls, insts["o"], last.name)
               /\ get_attr(cls, insts["o"], last.name) = last.value
          ELSE last.outcome = "ValidationError"
    /\ (/\ last.op \in {"construct", "from_dict"}
        /\ src.validate
        /\ last.outcome # "TypeError") =>
          (last.outcome = "ValidationError") = (last.args[A] <= 0)

\* The generated setter of a has just rejected 0 on an instance holding 1.
C4_Witness ==
    /\ ValidatedAssignment /\ ~src.override
    /\ last.value = 0 /\ last.outcome = "ValidationError"
    /\ has_attr(cls, insts["o"], A)
    /\ get_attr(cls, insts["o"], A) = 1

\* C5: with a @setter_override for a, an accepted assignment runs the user's
\* setter, and the validation the constructor declares for a is still
\* enforced: a rejected value raises and the override's body does not run.
C5_OverrideValidated ==
    (last.op = "setattr" /\ last.name = A /\ src.override /\ cfg.autoprops) =>
        IF src.validate /\ last.value <= 0
        THEN last.outcome = "ValidationError" /\ ~last.overridden
        ELSE /\ last.outcome = "ok" /\ last.overridden
             /\ insts["o"][private_name(A)] = last.value

\* The validator raised for 0 on an instance whose a the overriding setter
\* had stored, although the override's body accepts any value.
C5_Witness ==
    /\ last.op = "setattr" /\ last.name = A /\ src.override /\ src.validate
    /\ cfg.autoprops
    /\ last.value = 0 /\ last.outcome = "ValidationError"
    /\ private_name(A) \in DOMAIN insts["o"]
    /\ insts["o"][private_name(A)] = 1

\* autodict with its default options: no filter, constructor arguments only.
DefaultDict ==
    /\ Decorated /\ cfg.autodict /\ ~cfg.all_fields
    /\ cfg.include = None /\ cfg.exclude = None

C6_Keys ==
    DefaultDict =>
        \A i \in created :
            /\ view_keys(cls, insts[i]) = ParamSet
            /\ \A k \in ParamSet :
                  has_attr(cls, insts[i], k) =>
                      /\ has_item(cls, insts[i], k)
                      /\ get_item(cls, insts[i], k) = insts[i][stored_name(k)]
            /\ \A n \in DOMAIN insts[i] :
                  n \notin ParamSet => ~has_item(cls, insts[i], n)

C6_ReadOnly ==
    last'.op = "setitem" => /\ last'.outcome = "TypeError"
                            /\ insts' = insts

\* C6: with autodict's default options the keys of an instance's view are
\* exactly the constructor parameters, each mapped to the current value of
\* the attribute of that name; fields set in the constructor body, private
\* fields and class-private fields are no keys; and an item assignment
\* raises and changes nothing.
C6_DefaultView == [](C6_Keys) /\ [][C6_ReadOnly]_vars

\* An instance that has the three extra fields, viewed as {a, b}, after an
\* item assignment was refused.
C6_Witness ==
    /\ DefaultDict /\ "o" \in created
    /\ {NonConstructorArg, Private, <<"_", "C", "__", "class_private">>}
           \subseteq DOMAIN insts["o"]
    /\ dict_ok(cls, insts["o"])
    /\ DOMAIN dict_of(cls, insts["o"]) = {A, B}
    /\ last.op = "setitem"

\* C8: with only_constructor_args=False and only_public_fields=False the keys
\* of the view are all the instance's attributes, each mapped to its value:
\* the parameters, the fields the body adds, the private field under _private
\* and the class-private field under _C__class_private.
C8_AllFields ==
    (Decorated /\ cfg.via = "readme" /\ cfg.all_fields) =>
        \A i \in created :
            /\ view_keys(cls, insts[i]) = DOMAIN insts[i]
            /\ dict_ok(cls, insts[i])
            /\ dict_of(cls, insts[i]) = vars_of(insts[i])
            /\ (cfg.autoargs /\ src.body = "extras") =>
                  view_keys(cls, insts[i]) =
                      {A, B, NonConstructorArg, <<"_", "private">>,
                       <<"_", "C", "__", "class_private">>}

\* The view of an instance of the readme's class D.
C8_Witness ==
    /\ Decorated /\ cfg.via = "readme" /\ cfg.all_fields /\ cfg.autoargs
    /\ src.body = "extras" /\ "o" \in created
    /\ dict_of(cls, insts["o"]) =
          (A :> 1 @@ B :> 0 @@ NonConstructorArg :> 0 @@ <<"_", "private">> :> 1
             @@ <<"_", "C", "__", "class_private">> :> 0)

\* p = C.from_dict(d) returned, for a d whose keys are exactly the parameters,
\* on a class with autodict's default options whose constructor assigns by
\* hand or uses autoargs.
FromDictDone ==
    /\ last.op = "from_dict" /\ last.outcome = "ok"
    /\ last.given = ParamSet
    /\ DefaultDict
    /\ src.body = "assign" \/ cfg.autoargs

\* dict(o) == o for every instance of an autodict class.
DictEqualsSelf ==
    (Decorated /\ cfg.autodict /\ (src.body = "assign" \/ cfg.autoargs)) =>
        /\ cls.mapping.on
        /\ \A i \in created :
              /\ dict_ok(cls, insts[i])
              /\ eq_mapping(cls, insts[i], dict_of(cls, insts[i]))

\* C7 as stated: vars(C.from_dict(d)) = d and C.from_dict(d) == d for every
\* such d, and dict(o) == o for every instance.
C7_AsStated ==
    /\ FromDictDone => /\ vars_of(insts["p"]) = last.args
                       /\ eq_mapping(cls, insts["p"], last.args)
    /\ DictEqualsSelf

\* C7, amended: on a class with autodict's default options, for every d whose
\* keys are exactly the parameters and that the constructor accepts, the view
\* of C.from_dict(d) equals d; vars(C.from_dict(d)) equals d when moreover the
\* constructor sets no other attribute and no property was generated (a
\* property's value is in vars under _name); dict(o) == o for every instance.
C7_FromDictInverse ==
    /\ FromDictDone =>
          /\ eq_mapping(cls, insts["p"], last.args)
          /\ dict_of(cls, insts["p"]) = last.args
          /\ (src.body # "extras" /\ cls.props = {}) =>
                vars_of(insts["p"]) = last.args
          /\ \A k \in ParamSet : insts["p"][stored_name(k)] = last.args[k]
    /\ DictEqualsSelf

\* from_dict of {a: 1, b: 0} on the readme's class B: @autodict over an
\* @autoargs constructor with an empty body.
C7_Witness ==
    /\ FromDictDone
    /\ cfg.via = "readme" /\ cfg.autoargs /\ src.body = "pass"
    /\ last.args = (A :> 1 @@ B :> 0)
    /\ vars_of(insts["p"]) = (A :> 1 @@ B :> 0)
    /\ dict_of(cls, insts["p"]) = (A :> 1 @@ B :> 0)

====
